---- MODULE Spec2Model ----
(***************************************************************************)
(* The caplance client (internal/client/networking.go): the control        *)
(* reader (manageBalancerConnection), the heartbeat (sendHealth), the      *)
(* capture loop (listen), the relay workers (handlePackets), the operator  *)
(* commands pause/resume/deregister and the shutdown procedure             *)
(* gracefulStop, as goroutines sharing the unsynchronised field c.state.   *)
(* Every read or write of shared data is its own step: the source takes no *)
(* lock and uses no atomic, so all interleavings of those steps can occur. *)
(***************************************************************************)
EXTENDS Naturals, Sequences, FiniteSets, Bags

(* ---- bounds of the model ---- *)
MaxLines == 2       \* inbound lines the coordinator delivers
MaxOps == 2         \* operator commands issued
MaxHealth == 1      \* HEALTH reports written
MaxFrames == 2      \* frames the capture handle delivers
MaxQueue == 1       \* capacity of the channel c.packets
NumWorkers == 1     \* relay workers started by listen (20 in the source)
MTU == 2            \* what getMTU returns: the length of every buffer's payload
MaxDevs == 2        \* interfaces pcap.FindAllDevs lists
MaxAddrs == 2       \* addresses of one interface

(* ---- values ---- *)
Active == "Active"
Paused == "Paused"
Deregistering == "Deregistering"

Name == "node"      \* c.name
SP == " "           \* the separator strings.Split is called with

\* An inbound line is a sequence of symbols: the separator, or an indivisible
\* run of non-space characters.
Lines ==
    { <<>>, <<SP>>, <<"x">>, <<"INVALID">>, <<"INVALID", SP, "x">>,
      <<"HEALTHACK">>, <<"HEALTHACK", SP, "200">>,
      <<SP, "PAUSED">>, <<"PAUSED">>, <<"PAUSED", SP, "x">>,
      <<"RESUMED">>, <<"DEREGISTERED">> }

\* IP addresses and netmasks are bit strings, here two bits wide; an address
\* of an interface is the pair pcap reports: the interface's own IP and the
\* netmask of its subnet.
IPs == { <<0, 0>>, <<0, 1>>, <<1, 0>>, <<1, 1>> }
AddrChoices ==
    { [ip |-> <<0, 1>>, mask |-> <<1, 0>>],     \* host 01 in the subnet 0x
      [ip |-> <<1, 0>>, mask |-> <<1, 0>>],     \* host 10 in the subnet 1x
      [ip |-> <<0, 0>>, mask |-> <<1, 1>>] }    \* host 00 alone in its subnet
Targets == { <<0, 0>>, <<1, 1>> }
\* the i-th interface pcap lists; interface names are unique
DevName(i) == <<"eth", i>>
AddrLists == UNION { [1..n -> AddrChoices] : n \in 0..MaxAddrs }
\* the interfaces whose address lists are al[1], al[2], ...
Devices(al) == [i \in 1..Len(al) |-> [name |-> DevName(i), addrs |-> al[i]]]
NoName == << >>     \* the empty name
NoErr == "nil"
ErrEnum == "pcap.FindAllDevs failed"
ErrMultiple == "multiple devices on the same subnet. VIP cannot be assigned"
ErrNoDevice == "no device on same subnet as VIP. VIP cannot be assigned"
Pending == [name |-> NoName, err |-> "pending"]

OpThreads == {"op1"}
Callers == {"reader"} \cup OpThreads
Workers == 1..NumWorkers
NoBuf == 0

\* The k-th frame on the data interface carries the byte k in every position,
\* so that each byte on the wire names the frame it was captured from.
Frame(k, n) == [i \in 1..n |-> k]
\* Frame lengths: shorter than a buffer, as long as one, and longer than one.
FrameLens == 1..(MTU + 1)

VARIABLES
    state,          \* c.state
    exited,         \* os.Exit has been called
    vipAttached,    \* the VIP is an address of lo
    commCloses,     \* calls of c.comm.Close
    listenerCloses, \* calls of c.dataListener.Close
    detaches,       \* calls of c.detachVIP
    sent,           \* bag of the WriteLine calls on c.comm
    pc,             \* position of the reader and of each operator thread
    message,        \* the reader's local: the line ReadLine returned
    linesRead,      \* lines delivered so far
    opsDone,        \* operator commands issued so far
    hpc,            \* position of sendHealth
    lpc,            \* position of listen
    packet,         \* listen's local: the buffer it holds
    framesRead,     \* frames delivered so far
    queue,          \* c.packets
    idle,           \* buffers in the pool
    allocated,      \* buffers the pool's New has made
    gets,           \* pool.Get calls
    puts,           \* pool.Put calls
    wpc,            \* position of each relay worker
    wpacket,        \* each worker's local: the buffer it holds
    bufs,           \* the rawPacket values, by buffer: [size, payload]
    out,            \* each worker's argument of Sendto: packet.payload[:packet.size]
    werr,           \* each worker's local err: Sendto failed
    captured,       \* history, by buffer: the bytes ReadFrom last stored in it
    acq,            \* history, by buffer: the pool when the buffer was last acquired
    host,           \* what pcap.FindAllDevs returns on this machine
    dataIP,         \* c.dataIP
    devResult,      \* what findDevice returned to getMTU
    stopDeregisters, \* history: DEREGISTER lines written by runs of gracefulStop
    stopState       \* history: c.state when the reader met its terminal condition

vars == << state, exited, vipAttached, commCloses, listenerCloses, detaches, sent,
           pc, message, linesRead, opsDone, hpc,
           lpc, packet, framesRead, queue, idle, allocated, gets, puts,
           wpc, wpacket, bufs, out, werr, captured, acq, host, dataIP, devResult,
           stopDeregisters, stopState >>

histVars == << stopDeregisters, stopState >>
lifeVars == << state, exited, vipAttached, commCloses, listenerCloses, detaches, sent >>
ctlVars == << pc, message, linesRead, opsDone, hpc >>
devVars == << host, dataIP, devResult >>
bufVars == << bufs, out, werr, captured, acq >>
relayVars == << lpc, packet, framesRead, queue, idle, allocated, gets, puts, wpc, wpacket,
               bufVars >>

commClosed == commCloses > 0
listenerClosed == listenerCloses > 0
Running == state = Active \/ state = Paused

(* ---- pure helpers ---- *)

RECURSIVE SplitFrom(_, _, _)
SplitFrom(s, cur, acc) ==
    IF s = <<>> THEN Append(acc, cur)
    ELSE IF Head(s) = SP THEN SplitFrom(Tail(s), <<>>, Append(acc, cur))
    ELSE SplitFrom(Tail(s), Append(cur, Head(s)), acc)

\* strings.Fields in place of strings.Split: empty tokens are dropped
SplitFields(s) == SelectSeq(SplitFrom(s, <<>>, <<>>), LAMBDA tok : tok # <<>>)

\* strings.Split(message, " "): always at least one token, possibly empty
Split(s) == SplitFrom(s, <<>>, <<>>)

\* c.comm.WriteLine(line): the call is recorded with whether the session was
\* still open when it was made
WriteLine(line) == sent (+) SetToBag({[line |-> line, ok |-> ~commClosed]})

Writes(kind) ==
    LET S == {e \in BagToSet(sent) : e.line[1] = kind}
        RECURSIVE Sum(_)
        Sum(T) == IF T = {} THEN 0
                  ELSE LET e == CHOOSE x \in T : TRUE
                       IN CopiesIn(e, sent) + Sum(T \ {e})
    IN Sum(S)

\* The started client: the VIP is attached, the state is Active, and listen and
\* manageBalancerConnection have just been started as goroutines.
(* ---- findDevice ---- *)

\* net.IPNet.Contains: the address and the target agree on every bit the
\* netmask selects
ContainsUnmasked(a, ip) == a.ip = ip
Contains(a, ip) ==
    \A i \in 1..Len(ip) : a.ip[i] * a.mask[i] = ip[i] * a.mask[i]

\* lines 24-36: the two loops, from address j of device i on, with the value
\* of foundDevice so far
RECURSIVE findDeviceFrom(_, _, _, _, _)
findDeviceFrom(devices, ip, i, j, foundDevice) ==
    IF i > Len(devices)
    THEN IF foundDevice = NoName
         THEN [name |-> NoName, err |-> ErrNoDevice]
         ELSE [name |-> foundDevice, err |-> NoErr]
    ELSE IF j > Len(devices[i].addrs)
    THEN findDeviceFrom(devices, ip, i + 1, 1, foundDevice)
    ELSE IF ~Contains(devices[i].addrs[j], ip)
    THEN findDeviceFrom(devices, ip, i, j + 1, foundDevice)
    ELSE IF foundDevice = NoName
    THEN findDeviceFrom(devices, ip, i, j + 1, devices[i].name)
    ELSE IF foundDevice # devices[i].name
    THEN [name |-> NoName, err |-> ErrMultiple]
    ELSE findDeviceFrom(devices, ip, i, j + 1, foundDevice)

\* lines 18-40
findDevice(h, ip) ==
    IF ~h.enumOk THEN [name |-> NoName, err |-> ErrEnum]
    ELSE findDeviceFrom(h.devices, ip, 1, 1, NoName)

\* The machine of the other specifications: one interface on the subnet of
\* the data address.
InitHost ==
    /\ host = [devices |-> Devices(<< << [ip |-> <<0, 1>>, mask |-> <<1, 0>>] >> >>),
               enumOk |-> TRUE]
    /\ dataIP = <<0, 0>>

InitClient ==
    /\ state = Active
    /\ exited = FALSE
    /\ vipAttached = TRUE
    /\ commCloses = 0
    /\ listenerCloses = 0
    /\ detaches = 0
    /\ sent = EmptyBag
    /\ pc = [t \in Callers |-> IF t = "reader" THEN "start" ELSE "idle"]
    /\ message = <<>>
    /\ linesRead = 0
    /\ opsDone = 0
    /\ hpc = "idle"
    /\ lpc = "start"
    /\ packet = NoBuf
    /\ framesRead = 0
    /\ queue = <<>>
    /\ idle = {}
    /\ allocated = 0
    /\ gets = 0
    /\ puts = 0
    /\ wpc = [w \in Workers |-> "idle"]
    /\ wpacket = [w \in Workers |-> NoBuf]
    /\ stopDeregisters = 0
    /\ stopState = "none"
    /\ bufs = << >> /\ captured = << >> /\ acq = << >>
    /\ out = [w \in Workers |-> << >>]
    /\ werr = [w \in Workers |-> FALSE]
    /\ devResult = Pending

Init == InitHost /\ InitClient

(* ---- the VIP on the loopback interface ---- *)

\* detachVIP: an error of LinkByName is returned, the result of AddrDel is dropped
detachVIP(linkOk, delOk) == IF linkOk /\ delOk THEN FALSE ELSE vipAttached

(* ---- manageBalancerConnection ---- *)

\* line 55: go c.sendHealth()
ManageStart ==
    /\ ~exited /\ pc["reader"] = "start"
    /\ hpc' = "loop"
    /\ pc' = [pc EXCEPT !["reader"] = "loop"]
    /\ UNCHANGED << devVars, histVars, lifeVars, relayVars, message, linesRead, opsDone >>

\* line 57: for c.state == Active || c.state == Paused
\* (message is local to the loop body: a new iteration starts without it)
ManageLoop ==
    /\ ~exited /\ pc["reader"] = "loop"
    /\ pc' = [pc EXCEPT !["reader"] = IF Running THEN "read" ELSE "done"]
    /\ message' = <<>>
    /\ UNCHANGED << devVars, histVars, lifeVars, relayVars, linesRead, opsDone, hpc >>

\* lines 58-63: ReadLine fails (timeout, broken or closed session)
ManageReadError ==
    /\ ~exited /\ pc["reader"] = "read"
    /\ pc' = [pc EXCEPT !["reader"] = "gs_check"]
    /\ stopState' = state
    /\ UNCHANGED << devVars, stopDeregisters, lifeVars, relayVars, message, linesRead, opsDone, hpc >>

\* line 58: ReadLine returns a line
ManageReadLine ==
    /\ ~exited /\ pc["reader"] = "read"
    /\ ~commClosed
    /\ linesRead < MaxLines
    /\ \E l \in Lines : message' = l
    /\ linesRead' = linesRead + 1
    /\ pc' = [pc EXCEPT !["reader"] = "dispatch"]
    /\ UNCHANGED << devVars, histVars, lifeVars, relayVars, opsDone, hpc >>

\* lines 71-92: the value the switch leaves in c.state
DirectiveState(tokens, cur) ==
    IF Len(tokens) < 1 THEN cur
    ELSE IF tokens[1] = <<"DEREGISTERED">> THEN Deregistering
    ELSE IF tokens[1] = <<"PAUSED">> THEN Paused
    ELSE IF tokens[1] = <<"RESUMED">> THEN Active
    ELSE cur

\* lines 66-92: where the reader goes after the switch
DirectivePc(tokens) ==
    IF Len(tokens) < 1 THEN "loop"
    ELSE IF tokens[1] = <<"DEREGISTERED">> THEN "gs_check"
    ELSE "loop"

\* lines 65-92
ManageDispatch ==
    /\ ~exited /\ pc["reader"] = "dispatch"
    /\ LET tokens == Split(message) IN
        /\ state' = DirectiveState(tokens, state)
        /\ pc' = [pc EXCEPT !["reader"] = DirectivePc(tokens)]
        /\ stopState' = IF DirectivePc(tokens) = "gs_check" THEN state ELSE stopState
    /\ UNCHANGED << devVars, stopDeregisters, exited, vipAttached, commCloses, listenerCloses, detaches, sent,
                    relayVars, message, linesRead, opsDone, hpc >>

(* ---- sendHealth ---- *)

\* line 98
HealthLoop ==
    /\ ~exited /\ hpc = "loop"
    /\ hpc' = IF Running THEN "write" ELSE "done"
    /\ UNCHANGED << devVars, histVars, lifeVars, relayVars, pc, message, linesRead, opsDone >>

\* lines 100-101
HealthWrite ==
    /\ ~exited /\ hpc = "write"
    /\ Writes("HEALTH") < MaxHealth
    /\ sent' = WriteLine(<<"HEALTH", "200">>)
    /\ hpc' = "loop"
    /\ UNCHANGED << devVars, histVars, state, exited, vipAttached, commCloses, listenerCloses, detaches,
                    relayVars, pc, message, linesRead, opsDone >>

(* ---- deregister and gracefulStop, run by the reader or an operator thread ---- *)

\* deregister is entered at "dereg_set" when an operator calls it and at
\* "gs_dereg_set" when gracefulStop calls it; it returns to "idle" or to line 201
AfterDeregister(label) == IF label = "gs_dereg_write" THEN "gs_comm_close" ELSE "idle"

\* line 193
DeregisterSet(t) ==
    /\ ~exited /\ pc[t] \in {"dereg_set", "gs_dereg_set"}
    /\ state' = Deregistering
    /\ pc' = [pc EXCEPT ![t] = IF pc[t] = "gs_dereg_set" THEN "gs_dereg_write" ELSE "dereg_write"]
    /\ UNCHANGED << devVars, histVars, exited, vipAttached, commCloses, listenerCloses, detaches, sent,
                    relayVars, message, linesRead, opsDone, hpc >>

\* line 194
DeregisterWrite(t) ==
    /\ ~exited /\ pc[t] \in {"dereg_write", "gs_dereg_write"}
    /\ sent' = WriteLine(<<"DEREGISTER", Name>>)
    /\ pc' = [pc EXCEPT ![t] = AfterDeregister(pc[t])]
    /\ stopDeregisters' = IF pc[t] = "gs_dereg_write" THEN stopDeregisters + 1 ELSE stopDeregisters
    /\ UNCHANGED << devVars, stopState, state, exited, vipAttached, commCloses, listenerCloses, detaches,
                    relayVars, message, linesRead, opsDone, hpc >>

\* lines 198-200: whether gracefulStop calls deregister
StopEntryAlways(st) == "gs_dereg_set"
StopEntry(st) == IF st # Deregistering THEN "gs_dereg_set" ELSE "gs_comm_close"

StopCheck(t) ==
    /\ ~exited /\ pc[t] = "gs_check"
    /\ pc' = [pc EXCEPT ![t] = StopEntry(state)]
    /\ UNCHANGED << devVars, histVars, lifeVars, relayVars, message, linesRead, opsDone, hpc >>

\* line 201
StopCloseComm(t) ==
    /\ ~exited /\ pc[t] = "gs_comm_close"
    /\ commCloses' = commCloses + 1
    /\ pc' = [pc EXCEPT ![t] = "gs_listener_close"]
    /\ UNCHANGED << devVars, histVars, state, exited, vipAttached, listenerCloses, detaches, sent,
                    relayVars, message, linesRead, opsDone, hpc >>

\* line 202
StopCloseListener(t) ==
    /\ ~exited /\ pc[t] = "gs_listener_close"
    /\ listenerCloses' = listenerCloses + 1
    /\ pc' = [pc EXCEPT ![t] = "gs_detach"]
    /\ UNCHANGED << devVars, histVars, state, exited, vipAttached, commCloses, detaches, sent,
                    relayVars, message, linesRead, opsDone, hpc >>

\* line 203
StopDetach(t) ==
    /\ ~exited /\ pc[t] = "gs_detach"
    /\ detaches' = detaches + 1
    /\ \E linkOk \in BOOLEAN, delOk \in BOOLEAN : vipAttached' = detachVIP(linkOk, delOk)
    /\ pc' = [pc EXCEPT ![t] = "gs_exit"]
    /\ UNCHANGED << devVars, histVars, state, exited, commCloses, listenerCloses, sent,
                    relayVars, message, linesRead, opsDone, hpc >>

\* lines 204-207: recover() outside a deferred call returns nil; os.Exit(0)
StopExit(t) ==
    /\ ~exited /\ pc[t] = "gs_exit"
    /\ exited' = TRUE
    /\ pc' = [pc EXCEPT ![t] = "exited"]
    /\ UNCHANGED << devVars, histVars, state, vipAttached, commCloses, listenerCloses, detaches, sent,
                    relayVars, message, linesRead, opsDone, hpc >>

(* ---- operator commands ---- *)

Commands == {"pause", "resume", "deregister", "gracefulStop"}

Entry(cmd) ==
    CASE cmd = "pause" -> "pause_check"
      [] cmd = "resume" -> "resume_check"
      [] cmd = "deregister" -> "dereg_set"
      [] cmd = "gracefulStop" -> "gs_check"

\* an operator thread calls one of the commands cmds
Invoke(t, cmds) ==
    /\ ~exited /\ pc[t] = "idle"
    /\ opsDone < MaxOps
    /\ \E cmd \in cmds : pc' = [pc EXCEPT ![t] = Entry(cmd)]
    /\ opsDone' = opsDone + 1
    /\ UNCHANGED << devVars, histVars, lifeVars, relayVars, message, linesRead, hpc >>

\* the guard of pause compared with the wrong state
pauseBranchActive(st) == IF st = Active THEN "pause_already" ELSE "pause_write"

\* lines 211-214: where pause goes after reading c.state
pauseBranch(st) == IF st = Paused THEN "pause_already" ELSE "pause_write"

\* line 211
PauseCheck(t) ==
    /\ ~exited /\ pc[t] = "pause_check"
    /\ pc' = [pc EXCEPT ![t] = pauseBranch(state)]
    /\ UNCHANGED << devVars, histVars, lifeVars, relayVars, message, linesRead, opsDone, hpc >>

\* line 212: return errors.New("cannot pause an already paused client")
PauseAlready(t) ==
    /\ ~exited /\ pc[t] = "pause_already"
    /\ pc' = [pc EXCEPT ![t] = "idle"]
    /\ UNCHANGED << devVars, histVars, lifeVars, relayVars, message, linesRead, opsDone, hpc >>

\* pause that also records the new state locally
PauseWriteOptimistic(t) ==
    /\ ~exited /\ pc[t] = "pause_write"
    /\ sent' = WriteLine(<<"PAUSE", Name>>)
    /\ state' = Paused
    /\ pc' = [pc EXCEPT ![t] = "idle"]
    /\ UNCHANGED << devVars, histVars, exited, vipAttached, commCloses, listenerCloses, detaches,
                    relayVars, message, linesRead, opsDone, hpc >>

\* line 214
PauseWrite(t) ==
    /\ ~exited /\ pc[t] = "pause_write"
    /\ sent' = WriteLine(<<"PAUSE", Name>>)
    /\ pc' = [pc EXCEPT ![t] = "idle"]
    /\ UNCHANGED << devVars, histVars, state, exited, vipAttached, commCloses, listenerCloses, detaches,
                    relayVars, message, linesRead, opsDone, hpc >>

\* lines 218-221: where resume goes after reading c.state
resumeBranch(st) == IF st = Active THEN "resume_already" ELSE "resume_write"

\* line 218
ResumeCheck(t) ==
    /\ ~exited /\ pc[t] = "resume_check"
    /\ pc' = [pc EXCEPT ![t] = resumeBranch(state)]
    /\ UNCHANGED << devVars, histVars, lifeVars, relayVars, message, linesRead, opsDone, hpc >>

\* line 219: return errors.New("cannot resume an already active client")
ResumeAlready(t) ==
    /\ ~exited /\ pc[t] = "resume_already"
    /\ pc' = [pc EXCEPT ![t] = "idle"]
    /\ UNCHANGED << devVars, histVars, lifeVars, relayVars, message, linesRead, opsDone, hpc >>

\* line 221
ResumeWrite(t) ==
    /\ ~exited /\ pc[t] = "resume_write"
    /\ sent' = WriteLine(<<"RESUME", Name>>)
    /\ pc' = [pc EXCEPT ![t] = "idle"]
    /\ UNCHANGED << devVars, histVars, state, exited, vipAttached, commCloses, listenerCloses, detaches,
                    relayVars, message, linesRead, opsDone, hpc >>

(* ---- the packet pool ---- *)

\* lines 42-51: what the pool's New makes
NewPacket == [size |-> 0, payload |-> [i \in 1..MTU |-> 0]]

\* The pool as one acquisition found it: the idle count before pool.Get,
\* whether New had to make the buffer, and the number of Get and Put calls
\* up to and including this Get.
Acquired(n, fresh, ops) == [idleBefore |-> n, fresh |-> fresh, ops |-> ops]
NoAcq == Acquired(0, FALSE, 0)

Min(a, b) == IF a <= b THEN a ELSE b

\* line 122: ReadFrom(p) copies the frame into p, as far as p reaches, leaves
\* the rest of p as it was and returns the number of bytes copied
ReadCount(p, frame) == Min(Len(frame), Len(p))
ReadInto(p, frame) ==
    [i \in 1..Len(p) |-> IF i <= ReadCount(p, frame) THEN frame[i] ELSE p[i]]

\* line 183: packet.payload[:packet.size]
SentSliceWhole(r) == r.payload
SentSlice(r) == SubSeq(r.payload, 1, r.size)

\* lines 183-188: where the worker goes after Sendto returned
AfterSendRetry(ok) == IF ok THEN "put" ELSE "send"
AfterSend(ok) == "put"

(* ---- listen ---- *)

\* lines 108-111: getMTU fails, in findDevice or in netlink.LinkByName
ListenNoMTU ==
    /\ ~exited /\ lpc = "start"
    /\ devResult' = findDevice(host, dataIP)
    /\ lpc' = "failed"
    /\ UNCHANGED << host, dataIP, histVars, lifeVars, ctlVars, packet, framesRead, queue, idle, allocated,
                    gets, puts, wpc, wpacket, bufVars >>

\* lines 108-117: getMTU succeeds, the pool is made, the workers are started
ListenSpawn ==
    /\ ~exited /\ lpc = "start"
    /\ findDevice(host, dataIP).err = NoErr
    /\ devResult' = findDevice(host, dataIP)
    /\ wpc' = [w \in Workers |-> "loop"]
    /\ lpc' = "set_active"
    /\ UNCHANGED << host, dataIP, histVars, lifeVars, ctlVars, packet, framesRead, queue, idle, allocated,
                    gets, puts, wpacket, bufVars >>

\* line 119
ListenSetActive ==
    /\ ~exited /\ lpc = "set_active"
    /\ state' = Active
    /\ lpc' = "loop"
    /\ UNCHANGED << devVars, histVars, exited, vipAttached, commCloses, listenerCloses, detaches, sent,
                    ctlVars, packet, framesRead, queue, idle, allocated,
                    gets, puts, wpc, wpacket, bufVars >>

\* line 120
ListenLoop ==
    /\ ~exited /\ lpc = "loop"
    /\ lpc' = IF Running THEN "get" ELSE "done"
    /\ UNCHANGED << devVars, histVars, lifeVars, ctlVars, packet, framesRead, queue, idle, allocated,
                    gets, puts, wpc, wpacket, bufVars >>

\* line 121: pool.Get returns an idle buffer, or a new one when none is idle
ListenGet ==
    /\ ~exited /\ lpc = "get"
    /\ IF idle # {}
       THEN /\ \E b \in idle :
                /\ packet' = b
                /\ idle' = idle \ {b}
                /\ acq' = [acq EXCEPT
                             ![b] = Acquired(Cardinality(idle), FALSE, gets + puts + 1)]
            /\ UNCHANGED << allocated, bufs, captured >>
       ELSE /\ packet' = allocated + 1
            /\ allocated' = allocated + 1
            /\ bufs' = Append(bufs, NewPacket)
            /\ captured' = Append(captured, << >>)
            /\ acq' = Append(acq, Acquired(0, TRUE, gets + puts + 1))
            /\ idle' = idle
    /\ gets' = gets + 1
    /\ lpc' = "read"
    /\ UNCHANGED << devVars, histVars, lifeVars, ctlVars, framesRead, queue, puts, wpc, wpacket,
                    out, werr >>

\* lines 122-125: ReadFrom fails; listen returns and its buffer is dropped
ListenReadError ==
    /\ ~exited /\ lpc = "read"
    /\ lpc' = "failed"
    /\ packet' = NoBuf
    /\ UNCHANGED << devVars, histVars, lifeVars, ctlVars, framesRead, queue, idle, allocated,
                    gets, puts, wpc, wpacket, bufVars >>

\* lines 122 and 126: ReadFrom stores a frame of one of the lengths lens in
\* packet.payload and its byte count in packet.size
ListenReadFrame(lens) ==
    /\ ~exited /\ lpc = "read"
    /\ ~listenerClosed
    /\ framesRead < MaxFrames
    /\ framesRead' = framesRead + 1
    /\ \E len \in lens :
         LET frame == Frame(framesRead + 1, len)
             p == bufs[packet].payload
         IN /\ bufs' = [bufs EXCEPT ![packet] = [size |-> ReadCount(p, frame),
                                                  payload |-> ReadInto(p, frame)]]
            /\ captured' = [captured EXCEPT
                              ![packet] = SubSeq(frame, 1, ReadCount(p, frame))]
    /\ lpc' = "enqueue"
    /\ UNCHANGED << devVars, histVars, lifeVars, ctlVars, packet, queue, idle, allocated,
                    gets, puts, wpc, wpacket, out, werr, acq >>

\* line 127: blocks while the channel is full
ListenEnqueue ==
    /\ ~exited /\ lpc = "enqueue"
    /\ Len(queue) < MaxQueue
    /\ queue' = Append(queue, packet)
    /\ packet' = NoBuf
    /\ lpc' = "loop"
    /\ UNCHANGED << devVars, histVars, lifeVars, ctlVars, framesRead, idle, allocated,
                    gets, puts, wpc, wpacket, bufVars >>

(* ---- handlePackets ---- *)

\* line 181
WorkerLoop(w) ==
    /\ ~exited /\ wpc[w] = "loop"
    /\ wpc' = [wpc EXCEPT ![w] = IF Running THEN "recv" ELSE "done"]
    /\ UNCHANGED << devVars, histVars, lifeVars, ctlVars, lpc, packet, framesRead, queue, idle, allocated,
                    gets, puts, wpacket, bufVars >>

\* line 182: blocks while the channel is empty
WorkerRecv(w) ==
    /\ ~exited /\ wpc[w] = "recv"
    /\ queue # <<>>
    /\ wpacket' = [wpacket EXCEPT ![w] = Head(queue)]
    /\ queue' = Tail(queue)
    /\ wpc' = [wpc EXCEPT ![w] = "send"]
    /\ UNCHANGED << devVars, histVars, lifeVars, ctlVars, lpc, packet, framesRead, idle, allocated,
                    gets, puts, bufVars >>

\* lines 183-186: Sendto succeeds or fails; its error is only logged
WorkerSend(w) ==
    /\ ~exited /\ wpc[w] = "send"
    /\ out' = [out EXCEPT ![w] = SentSlice(bufs[wpacket[w]])]
    /\ \E failed \in BOOLEAN :
         /\ werr' = [werr EXCEPT ![w] = failed]
         /\ wpc' = [wpc EXCEPT ![w] = AfterSend(~failed)]
    /\ UNCHANGED << devVars, histVars, lifeVars, ctlVars, lpc, packet, framesRead, queue, idle, allocated,
                    gets, puts, wpacket, bufs, captured, acq >>

\* line 188, and the end of the loop body
WorkerPut(w) ==
    /\ ~exited /\ wpc[w] = "put"
    /\ idle' = idle \cup {wpacket[w]}
    /\ puts' = puts + 1
    /\ wpacket' = [wpacket EXCEPT ![w] = NoBuf]
    /\ out' = [out EXCEPT ![w] = << >>]
    /\ werr' = [werr EXCEPT ![w] = FALSE]
    /\ acq' = [acq EXCEPT ![wpacket[w]] = NoAcq]
    /\ wpc' = [wpc EXCEPT ![w] = "loop"]
    /\ UNCHANGED << devVars, histVars, lifeVars, ctlVars, lpc, packet, framesRead, queue, allocated, gets,
                    bufs, captured >>

Startup ==
    \/ ListenSpawn
    \/ ListenSetActive

Shutdown ==
    \/ \E t \in Callers : DeregisterSet(t)
    \/ \E t \in Callers : DeregisterWrite(t)
    \/ \E t \in Callers : StopCheck(t)
    \/ \E t \in Callers : StopCloseComm(t)
    \/ \E t \in Callers : StopCloseListener(t)
    \/ \E t \in Callers : StopDetach(t)
    \/ \E t \in Callers : StopExit(t)

\* The control plane: the reader, every operator command and the shutdown,
\* in a client whose getMTU succeeds and while no frame arrives on the data
\* interface (the capture loop and the workers stay blocked and write no
\* variable of the control plane).
Next ==
    \/ Startup
    \/ Shutdown
    \/ ManageStart
    \/ ManageLoop
    \/ ManageReadError
    \/ ManageReadLine
    \/ ManageDispatch
    \/ \E t \in OpThreads : Invoke(t, Commands)
    \/ \E t \in OpThreads : PauseCheck(t)
    \/ \E t \in OpThreads : PauseAlready(t)
    \/ \E t \in OpThreads : PauseWrite(t)
    \/ \E t \in OpThreads : ResumeCheck(t)
    \/ \E t \in OpThreads : ResumeAlready(t)
    \/ \E t \in OpThreads : ResumeWrite(t)

Spec == Init /\ [][Next]_vars

\* The data plane: the capture loop and the relay workers, with an operator
\* who may deregister or stop the client, while the coordinator is silent (the
\* reader stays blocked in ReadLine).
NextRelay ==
    \/ ListenNoMTU
    \/ Startup
    \/ Shutdown
    \/ \E t \in OpThreads : Invoke(t, {"deregister", "gracefulStop"})
    \/ ListenLoop
    \/ ListenGet
    \/ ListenReadError
    \/ ListenReadFrame({MTU})
    \/ ListenEnqueue
    \/ \E w \in Workers : WorkerLoop(w)
    \/ \E w \in Workers : WorkerRecv(w)
    \/ \E w \in Workers : WorkerSend(w)
    \/ \E w \in Workers : WorkerPut(w)

SpecRelay == Init /\ [][NextRelay]_vars

\* The data plane with a fair scheduler: a goroutine that can take a step
\* takes one in the end. Nothing makes the operator issue a command, and
\* os.Exit is given no fairness, so that no loop is helped to its end by the
\* end of the process.
ListenStep ==
    \/ ListenNoMTU
    \/ Startup
    \/ ListenLoop
    \/ ListenGet
    \/ ListenReadError
    \/ ListenReadFrame({MTU})
    \/ ListenEnqueue

WorkerStep(w) ==
    \/ WorkerLoop(w)
    \/ WorkerRecv(w)
    \/ WorkerSend(w)
    \/ WorkerPut(w)

StopStep(t) ==
    \/ DeregisterSet(t)
    \/ DeregisterWrite(t)
    \/ StopCheck(t)
    \/ StopCloseComm(t)
    \/ StopCloseListener(t)
    \/ StopDetach(t)

LiveRelay ==
    /\ SpecRelay
    /\ WF_vars(ListenStep)
    /\ \A w \in Workers : WF_vars(WorkerStep(w))
    /\ \A t \in Callers : WF_vars(StopStep(t))

\* The packet pipeline alone: the capture loop and the relay workers of a
\* client nobody stops, with frames of every length and sends that may fail.
NextPipeline ==
    \/ ListenNoMTU
    \/ Startup
    \/ ListenLoop
    \/ ListenGet
    \/ ListenReadError
    \/ ListenReadFrame(FrameLens)
    \/ ListenEnqueue
    \/ \E w \in Workers : WorkerLoop(w)
    \/ \E w \in Workers : WorkerRecv(w)
    \/ \E w \in Workers : WorkerSend(w)
    \/ \E w \in Workers : WorkerPut(w)

SpecPipeline == Init /\ [][NextPipeline]_vars

\* The packet pipeline of a client whose c.state holds any of its values when
\* listen is started: line 119 is the first assignment the source makes.
States == {Active, Paused, Deregistering}

InitAnyState ==
    /\ InitHost
    /\ state \in States
    /\ exited = FALSE /\ vipAttached = TRUE
    /\ commCloses = 0 /\ listenerCloses = 0 /\ detaches = 0
    /\ sent = EmptyBag
    /\ pc = [t \in Callers |-> IF t = "reader" THEN "start" ELSE "idle"]
    /\ message = << >> /\ linesRead = 0 /\ opsDone = 0
    /\ hpc = "idle" /\ lpc = "start"
    /\ packet = NoBuf /\ framesRead = 0 /\ queue = << >>
    /\ idle = {} /\ allocated = 0 /\ gets = 0 /\ puts = 0
    /\ wpc = [w \in Workers |-> "idle"]
    /\ wpacket = [w \in Workers |-> NoBuf]
    /\ bufs = << >> /\ captured = << >> /\ acq = << >>
    /\ out = [w \in Workers |-> << >>]
    /\ werr = [w \in Workers |-> FALSE]
    /\ devResult = Pending
    /\ stopDeregisters = 0 /\ stopState = "none"

SpecColdStart == InitAnyState /\ [][NextPipeline]_vars

\* The heartbeat: sendHealth, started by the reader, beside an operator who
\* may deregister or stop the client and a reader whose ReadLine may fail,
\* while the coordinator is silent.
NextHealth ==
    \/ Shutdown
    \/ ManageStart
    \/ ManageLoop
    \/ ManageReadError
    \/ \E t \in OpThreads : Invoke(t, {"deregister", "gracefulStop"})
    \/ HealthLoop
    \/ HealthWrite

SpecHealth == Init /\ [][NextHealth]_vars

\* findDevice on every machine: any list of interfaces and addresses, any
\* data address, pcap.FindAllDevs succeeding or not; getMTU calls it at the
\* start of listen.
InitDevice ==
    /\ \E n \in 0..MaxDevs : \E al \in [1..n -> AddrLists] : \E ok \in BOOLEAN :
          host = [devices |-> Devices(al), enumOk |-> ok]
    /\ dataIP \in Targets
    /\ InitClient

NextDevice ==
    \/ ListenNoMTU
    \/ ListenSpawn

SpecDevice == InitDevice /\ [][NextDevice]_vars

(* ---- the claims ---- *)

StopLabels == {"gs_check", "gs_dereg_set", "gs_dereg_write", "gs_comm_close",
               "gs_listener_close", "gs_detach", "gs_exit", "exited"}

\* listen has executed line 119
AfterSetActive == lpc \in {"loop", "get", "read", "enqueue", "done"} \/ (lpc = "failed" /\ gets > 0)

\* the first token of a line, read off the line itself: what precedes the first separator
FirstTokenOf(line) ==
    LET seps == {i \in 1..Len(line) : line[i] = SP}
        end == IF seps = {} THEN Len(line)
               ELSE (CHOOSE i \in seps : \A j \in seps : i <= j) - 1
    IN SubSeq(line, 1, end)

StateDirectives == {<<"DEREGISTERED">>, <<"PAUSED">>, <<"RESUMED">>}

\* a DEREGISTER line reached the coordinator: written while the session was open
DeregisterSent == \E e \in BagToSet(sent) : e.line = <<"DEREGISTER", Name>> /\ e.ok

\* buffers obtained from the pool and still held by the capture loop, the queue or a worker
InFlight ==
    (IF packet # NoBuf THEN 1 ELSE 0) + Len(queue)
    + Cardinality({w \in Workers : wpacket[w] # NoBuf})

\* C1: once c.state is Deregistering, no step of any loop or command sets it to
\* Active or Paused.
C1_DeregisteringTerminal == [][state = Deregistering => state' = Deregistering]_vars

\* C2: however many runs of gracefulStop overlap, together they write at most one
\* DEREGISTER line and attempt detachVIP at most once.
C2_ShutdownIdempotent == stopDeregisters <= 1 /\ detaches <= 1

\* C3: after listen has set the state to Active, the VIP is attached exactly
\* when the state is Active or Paused.
C3_VipIffRunning == AfterSetActive => (vipAttached <=> Running)

\* C4: every buffer obtained by pool.Get has been returned by exactly one
\* pool.Put or is still held by the capture loop, the queue or a worker: none
\* is lost and none is released twice.
C4_BufferReleasedOnce == gets = puts + InFlight

\* C5: while c.state is Deregistering no step attaches the VIP, no worker
\* transmits a frame and the capture loop enqueues no buffer.
C5_NoRelayAfterDeregistering ==
    [][state = Deregistering =>
        /\ (vipAttached' => vipAttached)
        /\ \A w \in Workers : ~(wpc[w] = "send" /\ wpc'[w] = "put")
        /\ Len(queue') <= Len(queue)]_vars

\* C6: pause() that reads the state Paused returns the already-paused error,
\* and resume() that reads the state Active returns the already-active error;
\* neither step writes a line or changes the state.
C6_LocalMisuse ==
    [][\A t \in OpThreads :
        /\ (pc[t] = "pause_check" /\ pc'[t] # pc[t] /\ state = Paused)
            => (pc'[t] = "pause_already" /\ sent' = sent /\ state' = state)
        /\ (pc[t] = "pause_already" /\ pc'[t] # pc[t])
            => (pc'[t] = "idle" /\ sent' = sent /\ state' = state)
        /\ (pc[t] = "resume_check" /\ pc'[t] # pc[t] /\ state = Active)
            => (pc'[t] = "resume_already" /\ sent' = sent /\ state' = state)
        /\ (pc[t] = "resume_already" /\ pc'[t] # pc[t])
            => (pc'[t] = "idle" /\ sent' = sent /\ state' = state)]_vars

\* C6 witness: pause() has read the state Paused and is returning its error.
C6_Witness == \E t \in OpThreads : pc[t] = "pause_already" /\ state = Paused

TransitionTable ==
    {<<Active, Paused>>, <<Paused, Active>>, <<Active, Deregistering>>, <<Paused, Deregistering>>}

\* C7: a directive dispatched by the reader changes c.state only along
\* Active->Paused, Paused->Active, Active->Deregistering and
\* Paused->Deregistering; dispatched in any other state (PAUSED or RESUMED
\* while the state is Deregistering) it leaves the state unchanged.
C7_TransitionTable ==
    [][(pc["reader"] = "dispatch" /\ pc'["reader"] # "dispatch" /\ state' # state)
        => <<state, state'>> \in TransitionTable]_vars

\* C8: when the reader dispatches a line whose first token is none of
\* DEREGISTERED, PAUSED, RESUMED, the step changes neither the state nor the
\* session nor the handles, starts no shutdown and returns to the loop
\* condition of line 57, from which the reader reads the next line whenever
\* the state is Active or Paused.
C8_IgnoredLines ==
    [][/\ (pc["reader"] = "dispatch" /\ pc'["reader"] # "dispatch"
           /\ FirstTokenOf(message) \notin StateDirectives)
            => /\ state' = state /\ sent' = sent /\ exited' = exited
               /\ commCloses' = commCloses /\ listenerCloses' = listenerCloses
               /\ detaches' = detaches /\ vipAttached' = vipAttached
               /\ pc'["reader"] = "loop"
       /\ (pc["reader"] = "loop" /\ pc'["reader"] # "loop" /\ Running)
            => pc'["reader"] = "read"]_vars

\* C8 witness: the reader has dispatched a line with no state directive as its
\* first token (here one that starts with the separator) and is back at line 57.
C8_Witness ==
    /\ pc["reader"] = "loop" /\ linesRead >= 1
    /\ message = <<SP, "PAUSED">>
    /\ FirstTokenOf(message) \notin StateDirectives

\* C9: after the reader has dispatched DEREGISTERED in state Active or Paused it
\* is in the shutdown procedure and never reads again, and in the whole
\* execution the session is closed once, the capture handle is closed once and
\* the VIP detachment is attempted once.
C9_DeregisteredShutsDownOnce ==
    (message = <<"DEREGISTERED">> /\ pc["reader"] # "dispatch" /\ stopState \in {Active, Paused})
        => /\ pc["reader"] \in StopLabels
           /\ commCloses <= 1 /\ listenerCloses <= 1 /\ detaches <= 1

\* C10: when ReadLine failed in state Active or Paused, the reader is in the
\* shutdown procedure, and once the process has terminated the state is
\* Deregistering, a DEREGISTER line has been sent, the session and the capture
\* handle are closed and the VIP detachment has been attempted.
C10_ReadErrorShutsDown ==
    (message = <<>> /\ stopState \in {Active, Paused})
        => /\ pc["reader"] \in StopLabels
           /\ exited => /\ state = Deregistering
                        /\ DeregisterSent
                        /\ commClosed /\ listenerClosed
                        /\ detaches >= 1

\* C11: once listen has stopped on a failed ReadFrom, the shutdown has been
\* initiated: the state is Deregistering (gracefulStop sets it before anything
\* else, and the capture loop is the one that has to call it).
C11_ReadFailureShutsDown == (lpc = "failed" /\ gets > 0) => state = Deregistering

\* a worker's step over line 183 (Sendto) and over line 188 (pool.Put)
SendStep(w) == wpc[w] = "send" /\ wpc'[w] # "send"
PutStep(w) == wpc[w] = "put" /\ wpc'[w] = "loop"

\* C12 (as claimed): the worker that dequeued a buffer passes Sendto exactly
\* the bytes ReadFrom stored for the frame, and after its pool.Put the pool's
\* idle count is what it was before the pool.Get that acquired the buffer.
C12_ExactBytesAndIdleCount ==
    [][\A w \in Workers :
         /\ SendStep(w) => out'[w] = captured[wpacket[w]]
         /\ PutStep(w) => Cardinality(idle') = acq[wpacket[w]].idleBefore]_vars

\* C12 (amended): the worker passes Sendto exactly the bytes ReadFrom stored
\* for the frame; its pool.Put makes the buffer idle again, one more idle
\* buffer than just before; and when no other Get or Put ran since the
\* buffer was acquired, the idle count is its value before the acquire if
\* the buffer came from the idle set, and one more if the pool had to make it.
C12_ExactBytesAndBufferIdle ==
    [][\A w \in Workers :
         /\ SendStep(w) => out'[w] = captured[wpacket[w]]
         /\ PutStep(w) =>
              LET b == wpacket[w] IN
              /\ b \notin idle
              /\ idle' = idle \cup {b}
              /\ (gets + puts = acq[b].ops) =>
                    Cardinality(idle') =
                        acq[b].idleBefore + (IF acq[b].fresh THEN 1 ELSE 0)]_vars

\* a worker has sent the frame of a reused buffer whose payload still holds,
\* behind the frame, a byte of the longer frame it carried before
C12_Witness ==
    \E w \in Workers :
        /\ wpc[w] = "put"
        /\ ~acq[wpacket[w]].fresh
        /\ out[w] = captured[wpacket[w]]
        /\ Len(out[w]) < MTU
        /\ \E i \in 1..MTU : bufs[wpacket[w]].payload[i] \notin {0, out[w][1]}

\* the interfaces with an address whose subnet contains the target
Subnet(a) == {h \in IPs : \A i \in 1..Len(h) : a.mask[i] = 1 => h[i] = a.ip[i]}
Matching ==
    { host.devices[i].name : i \in { k \in 1..Len(host.devices) :
          \E j \in 1..Len(host.devices[k].addrs) : dataIP \in Subnet(host.devices[k].addrs[j]) } }

\* C13: on a machine whose interfaces can be listed, findDevice fails with the
\* no-device error when no subnet contains the target, fails with the
\* multiple-devices error when subnets of two or more interfaces contain it,
\* and returns the interface's name when all matching subnets belong to one
\* interface.
C13_FindDevice ==
    (lpc # "start" /\ host.enumOk) =>
        /\ Matching = {} => devResult = [name |-> NoName, err |-> ErrNoDevice]
        /\ Cardinality(Matching) >= 2 => devResult = [name |-> NoName, err |-> ErrMultiple]
        /\ Cardinality(Matching) = 1 =>
              /\ devResult.err = NoErr
              /\ devResult.name \in Matching

\* findDevice has returned the name of an interface that matches through two
\* of its addresses, on a machine with a second interface that does not match
C13_Witness ==
    /\ lpc # "start" /\ host.enumOk
    /\ devResult.err = NoErr
    /\ Len(host.devices) = 2
    /\ \E i \in 1..Len(host.devices) :
          /\ host.devices[i].name = devResult.name
          /\ Cardinality({ j \in 1..Len(host.devices[i].addrs) :
                             dataIP \in Subnet(host.devices[i].addrs[j]) }) = 2

\* thread t moves from one position of gracefulStop to another
RunStep(t, from, to) == pc[t] = from /\ pc'[t] = to
\* what the steps of gracefulStop do to the outside
StopEffects == << Writes("DEREGISTER"), commCloses, listenerCloses, detaches, exited >>

\* C14: every step of one run of gracefulStop is the next one of the order
\* check, [set Deregistering, write DEREGISTER], close the session, close the
\* capture handle, detach, exit, and does that one thing only: the DEREGISTER
\* line is written (only when the check found a state other than
\* Deregistering) before the run closes the session, the session is closed
\* before the capture handle, the capture handle before the detach, and the
\* process exits only after the detach.
C14_ShutdownOrder ==
    [][\A t \in Callers : (pc[t] \in StopLabels /\ pc'[t] # pc[t]) =>
         \/ /\ RunStep(t, "gs_check", "gs_dereg_set")
            /\ state # Deregistering
            /\ StopEffects' = StopEffects
         \/ /\ RunStep(t, "gs_check", "gs_comm_close")
            /\ state = Deregistering
            /\ StopEffects' = StopEffects
         \/ /\ RunStep(t, "gs_dereg_set", "gs_dereg_write")
            /\ StopEffects' = StopEffects
         \/ /\ RunStep(t, "gs_dereg_write", "gs_comm_close")
            /\ StopEffects' = << Writes("DEREGISTER") + 1, commCloses, listenerCloses,
                                 detaches, FALSE >>
         \/ /\ RunStep(t, "gs_comm_close", "gs_listener_close")
            /\ StopEffects' = << Writes("DEREGISTER"), commCloses + 1, listenerCloses,
                                 detaches, FALSE >>
         \/ /\ RunStep(t, "gs_listener_close", "gs_detach")
            /\ StopEffects' = << Writes("DEREGISTER"), commCloses, listenerCloses + 1,
                                 detaches, FALSE >>
         \/ /\ RunStep(t, "gs_detach", "gs_exit")
            /\ StopEffects' = << Writes("DEREGISTER"), commCloses, listenerCloses,
                                 detaches + 1, FALSE >>
         \/ /\ RunStep(t, "gs_exit", "exited")
            /\ StopEffects' = << Writes("DEREGISTER"), commCloses, listenerCloses,
                                 detaches, TRUE >>]_vars

\* one run of gracefulStop, and no other, has gone through all its steps,
\* the DEREGISTER line included
C14_Witness ==
    /\ \E t \in Callers : pc[t] = "exited"
    /\ stopDeregisters = 1 /\ Writes("DEREGISTER") = 1
    /\ commCloses = 1 /\ listenerCloses = 1 /\ detaches = 1

\* C15: every HEALTH line is written while the state is Active or Paused and
\* the session is open: none after the state became Deregistering, none after
\* c.comm.Close.
C15_HealthOnlyWhileRunning ==
    [][Writes("HEALTH")' > Writes("HEALTH") => (Running /\ ~commClosed)]_vars

\* the capture loop and every relay worker that was started have left their loop
LoopsEnded ==
    /\ lpc \in {"done", "failed"}
    /\ \A w \in Workers : wpc[w] \in {"idle", "done"}

\* C16: once the state has left {Active, Paused} and the session and the
\* capture handle are closed, the capture loop and every relay worker reach
\* the end of their loop by themselves, under weak fairness of their steps:
\* they have ended, or else os.Exit has ended the process before them.
C16_LoopsEnd ==
    (~Running /\ commClosed /\ listenerClosed) ~> (LoopsEnded \/ exited)

\* the number of holders of buffer b: the pool's idle set, the capture loop,
\* each place of the queue, each worker
HolderCount(b) ==
    (IF b \in idle THEN 1 ELSE 0)
    + (IF packet = b THEN 1 ELSE 0)
    + Cardinality({i \in 1..Len(queue) : queue[i] = b})
    + Cardinality({w \in Workers : wpacket[w] = b})

\* C17: every buffer the pool has made has exactly one holder: the pool
\* (idle), the capture loop, the queue (once) or one relay worker.
C17_OneHolder == \A b \in 1..allocated : HolderCount(b) = 1

\* what a relay worker must leave alone when its Sendto failed: the
\* lifecycle state, the position of every thread that can run the shutdown
\* (none enters gracefulStop), the lines written to the coordinator, the
\* handles, the capture loop and the queue
Bystanders == << state, exited, pc, sent, commCloses, listenerCloses, detaches, lpc, packet, queue >>

\* C18: a failed Sendto is not fatal: the worker goes on to pool.Put without
\* sending again, releases the buffer, and is back at the top of its loop for
\* the next dequeue, and neither step touches the lifecycle state, starts a
\* shutdown or sends anything to the capture loop or the coordinator.
C18_SendFailureNotFatal ==
    [][\A w \in Workers :
         /\ (wpc[w] = "send" /\ werr'[w]) =>
               /\ wpc'[w] = "put"
               /\ wpacket'[w] = wpacket[w]
               /\ idle' = idle
               /\ Bystanders' = Bystanders
         /\ (wpc[w] = "put" /\ werr[w] /\ wpc'[w] # wpc[w]) =>
               /\ wpc'[w] = "loop"
               /\ idle' = idle \cup {wpacket[w]}
               /\ puts' = puts + 1
               /\ Bystanders' = Bystanders]_vars

\* a worker's Sendto has failed while the client is relaying
C18_Witness ==
    \E w \in Workers : wpc[w] = "put" /\ werr[w] /\ state = Active /\ ~exited

PauseResumeLabels == {"pause_check", "pause_already", "pause_write",
                      "resume_check", "resume_already", "resume_write"}

\* the step writes exactly one line to the coordinator, of the given kind
WritesOne(kind) ==
    /\ BagCardinality(sent') = BagCardinality(sent) + 1
    /\ Writes(kind)' = Writes(kind) + 1

\* C19: no step of pause() or resume() writes c.state. pause() that read the
\* state Active goes on to write exactly one PAUSE line, resume() that read
\* Paused exactly one RESUME line, and returns; the state becomes Paused only
\* in the reader's step that dispatches a PAUSED line.
C19_PauseResumeFrame ==
    [][/\ \A t \in OpThreads :
            /\ (pc[t] \in PauseResumeLabels /\ pc'[t] # pc[t]) => state' = state
            /\ (pc[t] = "pause_check" /\ pc'[t] # pc[t] /\ state = Active)
                 => (pc'[t] = "pause_write" /\ sent' = sent)
            /\ (pc[t] = "pause_write" /\ pc'[t] # pc[t])
                 => (pc'[t] = "idle" /\ WritesOne("PAUSE"))
            /\ (pc[t] = "resume_check" /\ pc'[t] # pc[t] /\ state = Paused)
                 => (pc'[t] = "resume_write" /\ sent' = sent)
            /\ (pc[t] = "resume_write" /\ pc'[t] # pc[t])
                 => (pc'[t] = "idle" /\ WritesOne("RESUME"))
       /\ (state' = Paused /\ state # Paused)
            => (pc["reader"] = "dispatch" /\ FirstTokenOf(message) = <<"PAUSED">>)]_vars

\* a second pause() was issued before any line of the coordinator was read:
\* two PAUSE lines are out and the state is still Active
C19_Witness ==
    /\ Writes("PAUSE") = 2
    /\ linesRead = 0
    /\ state = Active
    /\ \A t \in OpThreads : pc[t] = "idle"

\* C20: whatever c.state held when listen was started, once listen has set
\* it to Active every relay worker listen started is in its loop for as long
\* as the state is Active or Paused: none has left through the test of line 181.
C20_WorkersStayWhileRelaying ==
    (AfterSetActive /\ Running) => \A w \in Workers : wpc[w] # "done"

====
